---- MODULE Spec2Model ----
(***************************************************************************)
(* Model of eazure's table helpers (src/src/eazure/tables.py): the batch   *)
(* writer/deleter and the schema rewriter, run against a table store that  *)
(* follows the contract of the Azure table service the code calls.         *)
(*                                                                         *)
(* One action is one stretch of a function's code up to and including its  *)
(* next call of the table service; loop iterations that only touch local   *)
(* variables are run inside the action that follows them.                  *)
(***************************************************************************)
EXTENDS Integers, Sequences, FiniteSets, TLC

VARIABLES
    store,      \* table name -> [exists, rows]: the table service's tables
    df,         \* the dataframe handed to the writers (a sequence of rows)
    call,       \* the top-level call being run and its arguments
    ncalls,     \* number of top-level calls started so far
    status,     \* "idle", "running", "done" or "failed" (an exception escaped)
    fault,      \* TRUE once the table service itself has failed a request
    pc,         \* the place in the code of the running function
    ret,        \* places to return to (the call stack)
    del,        \* locals of delete_all_rows_batch
    wr,         \* locals of write_df_to_azure_table(_batch)
    ren,        \* locals of rename_table
    col,        \* locals of copy_column / delete_column / rename_column
    log,        \* requests that change the store, made by the current call
                \* (for add_keys_to_df: the calls made and the keys they gave)
    store0      \* the store when the current call started

vars == <<store, df, call, ncalls, status, fault, pc, ret, del, wr, ren, col,
          log, store0>>

-----------------------------------------------------------------------------
(* Bounds of the model.                                                    *)

MaxRuns == 3        \* runs of equal PartitionKey in a generated dataset
MaxCalls == 2       \* top-level calls in one behaviour
MaxOneByOne == 3    \* rows a direct one-by-one write is started with
MaxRows == 2        \* entities of a table of mixed schema
MaxKeyRows == 11    \* rows of a dataframe that is given keys (and 99..101)

(* Program constant: the batch size both loops test for.                   *)
BatchLimit == 100

-----------------------------------------------------------------------------
(* Values.                                                                 *)

TableNames == {"T", "T2"}
PKs == {"p1", "p2"}
None == "None"              \* Python's None (current_partition_key)
NaN == "NaN"                \* pandas' fill value for a missing cell
StoreTime == "ts"           \* the Timestamp the table service assigns
KeyColumns == {"PartitionKey", "RowKey"}

(* An entity or a dataframe row is a mapping from column names to values.  *)
Has(e, c) == c \in DOMAIN e
Without(e, c) == [k \in DOMAIN e \ {c} |-> e[k]]
With(e, c, v) == [k \in DOMAIN e \cup {c} |-> IF k = c THEN v ELSE e[k]]

Map(Op(_), s) == [i \in 1..Len(s) |-> Op(s[i])]

-----------------------------------------------------------------------------
(* The table service, as far as the code relies on it.                     *)

NoTable == [exists |-> FALSE, rows |-> <<>>]

KeyOf(e) == <<e.PartitionKey, e.RowKey>>

HasKey(rows, pk, rk) ==
    \E i \in 1..Len(rows) : rows[i].PartitionKey = pk /\ rows[i].RowKey = rk

(* The service stores an entity with the Timestamp it assigns itself.      *)
Stored(e) == With(e, "Timestamp", StoreTime)

ValidEntity(e) == Has(e, "PartitionKey") /\ Has(e, "RowKey")

InsertAccepted(tbl, e) ==
    /\ tbl.exists
    /\ ValidEntity(e)
    /\ ~HasKey(tbl.rows, e.PartitionKey, e.RowKey)

InsertEntity(tbl, e) == [tbl EXCEPT !.rows = Append(@, Stored(e))]

UpdateAccepted(tbl, e) ==
    /\ tbl.exists
    /\ ValidEntity(e)
    /\ HasKey(tbl.rows, e.PartitionKey, e.RowKey)

(* update_entity replaces the whole entity that has the same keys.         *)
UpdateEntity(tbl, e) ==
    [tbl EXCEPT !.rows =
        [i \in 1..Len(@) |-> IF KeyOf(@[i]) = KeyOf(e) THEN Stored(e) ELSE @[i]]]

DeleteEntity(tbl, pk, rk) ==
    [tbl EXCEPT !.rows =
        SelectSeq(@, LAMBDA r : ~(r.PartitionKey = pk /\ r.RowKey = rk))]

(* Operations of a TableBatch.                                             *)
InsertOp(e) == [kind |-> "insert", PartitionKey |-> e.PartitionKey,
                RowKey |-> e.RowKey, entity |-> e]
DeleteOp(pk, rk) == [kind |-> "delete", PartitionKey |-> pk, RowKey |-> rk]

BatchKeys(batch) == {batch[i].PartitionKey : i \in 1..Len(batch)}

OpAccepted(tbl, op) ==
    IF op.kind = "insert"
    THEN ~HasKey(tbl.rows, op.PartitionKey, op.RowKey)
    ELSE HasKey(tbl.rows, op.PartitionKey, op.RowKey)

(* commit_batch is atomic: one partition key, 1..100 operations, no row    *)
(* named twice, and every operation acceptable on its own.                 *)
BatchAccepted(tbl, batch) ==
    /\ tbl.exists
    /\ Len(batch) >= 1
    /\ Len(batch) <= 100
    /\ Cardinality(BatchKeys(batch)) = 1
    /\ \A i, j \in 1..Len(batch) :
          i # j => batch[i].RowKey # batch[j].RowKey
    /\ \A i \in 1..Len(batch) : OpAccepted(tbl, batch[i])

(* The effect of an accepted batch: its deletes remove their rows, its     *)
(* inserts are stored in the order of the batch.                           *)
CommitBatch(tbl, batch) ==
    LET Deleted(r) ==
            \E i \in 1..Len(batch) :
                /\ batch[i].kind = "delete"
                /\ batch[i].PartitionKey = r.PartitionKey
                /\ batch[i].RowKey = r.RowKey
        inserts == SelectSeq(batch, LAMBDA op : op.kind = "insert")
    IN  [tbl EXCEPT !.rows =
            SelectSeq(@, LAMBDA r : ~Deleted(r))
            \o [i \in 1..Len(inserts) |-> Stored(inserts[i].entity)]]

-----------------------------------------------------------------------------
(* Inputs: datasets and prior tables made of runs of equal PartitionKey.   *)

RunLens == {1, BatchLimit, BatchLimit + 1}

RunSeqs ==
    {s \in UNION {[1..n -> PKs \X RunLens] : n \in 0..MaxRuns} :
        \A i \in 1..(Len(s) - 1) : s[i][1] # s[i + 1][1]}

RECURSIVE RunsLen(_)
RunsLen(runs) ==
    IF runs = <<>> THEN 0 ELSE Head(runs)[2] + RunsLen(Tail(runs))

RECURSIVE PkAt(_, _)
PkAt(runs, j) ==
    IF j <= Head(runs)[2] THEN Head(runs)[1]
    ELSE PkAt(Tail(runs), j - Head(runs)[2])

(* The rows of a dataframe that carries both key columns and one column.   *)
Dataset(runs) ==
    IF runs = <<>> THEN <<>>
    ELSE [j \in 1..RunsLen(runs) |->
            [PartitionKey |-> PkAt(runs, j), RowKey |-> j, a |-> "v1"]]

(* The same dataframe without the column c.                                *)
DropColumn(rows, c) == Map(LAMBDA r : Without(r, c), rows)

ValidDatasets == {Dataset(r) : r \in RunSeqs}
InvalidDatasets ==
    {DropColumn(Dataset(r), c) :
        r \in {s \in RunSeqs : Len(s) = 1}, c \in KeyColumns}
Datasets == ValidDatasets \cup InvalidDatasets

TableOf(rows) == [exists |-> TRUE, rows |-> Map(Stored, rows)]

LargeTables == {TableOf(Dataset(r)) : r \in RunSeqs}
SmallTables ==
    {NoTable} \cup
    {TableOf(Dataset(r)) : r \in {s \in RunSeqs : RunsLen(s) <= 2}}

-----------------------------------------------------------------------------
(* Locals, and the bookkeeping of calls.                                   *)

NoCall == [op |-> "none", table_name |-> "", truncate |-> FALSE,
           old |-> "", new |-> "", old_column |-> "", new_column |-> ""]
Del0 == [table_name |-> "", entities |-> <<>>, idx |-> 1, batch |-> <<>>,
         current_partition_key |-> None, batch_count |-> 0]
Wr0 == [table_name |-> "", df |-> <<>>, truncate |-> FALSE, data |-> <<>>,
        i |-> 1, batch |-> <<>>, batch_count |-> 0]
Ren0 == [old_name |-> "", new_name |-> "", entities |-> <<>>]
Col0 == [table_name |-> "", old_column |-> "", new_column |-> "",
         column_name |-> "", entities |-> <<>>, idx |-> 1]

Running(label) == status = "running" /\ pc = label

(* An exception that is swallowed: the function stays where it is and runs *)
(* on.                                                                     *)
RaiseSwallowed(injected) ==
    /\ status' = status
    /\ fault' = (fault \/ injected)
    /\ UNCHANGED <<pc, ret>>

(* An exception escapes: nothing after it runs.                            *)
Raise(injected) ==
    /\ status' = "failed"
    /\ fault' = (fault \/ injected)
    /\ UNCHANGED <<pc, ret>>

(* The function at the top of the stack returns.                           *)
Return ==
    /\ IF ret = <<>>
       THEN status' = "done" /\ pc' = "end" /\ ret' = ret
       ELSE status' = status /\ pc' = Head(ret) /\ ret' = Tail(ret)
    /\ fault' = fault

Goto(label) == pc' = label /\ UNCHANGED <<status, fault, ret>>

CommitEntry(t, batch, accepted) ==
    [call |-> "commit_batch", table |-> t, batch |-> batch, ok |-> accepted]
InsertEntry(t, e, accepted) ==
    [call |-> "insert_entity", table |-> t, entity |-> e, ok |-> accepted]

(* A create_table that creates nothing.                                    *)
CreateTableNever(st, t) == st

(* create_table, tables.py 22-34.                                          *)
CreateTable(st, t) ==
    IF ~st[t].exists
    THEN [st EXCEPT ![t] = [exists |-> TRUE, rows |-> <<>>]]
    ELSE st

-----------------------------------------------------------------------------
(* delete_all_rows_batch, tables.py 114-150.                               *)

(* 124-133: scan the table, start an empty batch.                          *)
DEL_Query ==
    /\ Running("del_query")
    /\ \E ok \in BOOLEAN :
         IF ok /\ store[del.table_name].exists
         THEN /\ del' = [del EXCEPT !.entities = store[del.table_name].rows,
                                    !.idx = 1, !.batch = <<>>,
                                    !.current_partition_key = None,
                                    !.batch_count = 0]
              /\ Goto("del_loop")
         ELSE /\ Raise(~ok)
              /\ del' = del
    /\ UNCHANGED <<store, df, call, ncalls, wr, ren, col, log, store0>>

(* 137: the test that closes the current batch.                            *)
DelFlushes(key, count, e) == key # e.PartitionKey \/ count = BatchLimit

(* 138: the closed batch is committed unless it is the initial one.        *)
DelCommits(key, count, e) == DelFlushes(key, count, e) /\ key # None

(* 140-146: the rest of one iteration.                                     *)
DelAdd(l, e) ==
    LET m == IF DelFlushes(l.current_partition_key, l.batch_count, e)
             THEN [l EXCEPT !.batch = <<>>,
                            !.current_partition_key = e.PartitionKey,
                            !.batch_count = 0]
             ELSE l
    IN  [m EXCEPT !.batch = Append(@, DeleteOp(e.PartitionKey, e.RowKey)),
                  !.batch_count = @ + 1,
                  !.idx = @ + 1]

(* n iterations in a row that keep the batch open (144-146 only).          *)
DelPlain(l, n) ==
    [l EXCEPT !.batch = @ \o [j \in 1..n |->
                                DeleteOp(l.entities[l.idx + j - 1].PartitionKey,
                                         l.entities[l.idx + j - 1].RowKey)],
              !.batch_count = @ + n,
              !.idx = @ + n]

(* The iterations that call nothing, up to the next one that commits: the  *)
(* first iteration of all (it closes the initial batch without a commit),  *)
(* then those that keep the batch open.                                    *)
DelSkip(l) ==
    LET f == IF l.idx <= Len(l.entities) /\ l.current_partition_key = None
             THEN DelAdd(l, l.entities[l.idx])
             ELSE l
        left == Len(f.entities) - f.idx + 1
        stops == {j \in 0..left :
                    \/ j = left
                    \/ DelCommits(f.current_partition_key, f.batch_count + j,
                                  f.entities[f.idx + j])}
        n == CHOOSE j \in stops : \A k \in stops : j <= k
    IN  DelPlain(f, n)

(* 135-146: the loop, up to and including its next commit_batch.           *)
DEL_Loop ==
    /\ Running("del_loop")
    /\ LET l == DelSkip(del)
           t == del.table_name
       IN  IF l.idx > Len(l.entities)
           THEN /\ del' = l
                /\ Goto("del_last")
                /\ UNCHANGED <<store, log>>
           ELSE \E ok \in BOOLEAN :
                  LET accepted == ok /\ BatchAccepted(store[t], l.batch)
                  IN  /\ log' = Append(log, CommitEntry(t, l.batch, accepted))
                      /\ IF accepted
                         THEN /\ store' = [store EXCEPT
                                             ![t] = CommitBatch(@, l.batch)]
                              /\ del' = DelAdd(l, l.entities[l.idx])
                              /\ Goto("del_loop")
                         ELSE /\ Raise(~ok)
                              /\ del' = l
                              /\ store' = store
    /\ UNCHANGED <<df, call, ncalls, wr, ren, col, store0>>

(* A deleter that leaves a last batch of one operation uncommitted.        *)
DelLeftoverMany(count) == count > 1

(* 149: the test that commits the last batch.                              *)
DelLeftover(count) == count > 0

(* 149-150: commit what is left, return.                                   *)
DEL_Last ==
    /\ Running("del_last")
    /\ LET t == del.table_name
       IN  IF DelLeftover(del.batch_count)
           THEN \E ok \in BOOLEAN :
                  LET accepted == ok /\ BatchAccepted(store[t], del.batch)
                  IN  /\ log' = Append(log, CommitEntry(t, del.batch, accepted))
                      /\ IF accepted
                         THEN /\ store' = [store EXCEPT
                                             ![t] = CommitBatch(@, del.batch)]
                              /\ Return
                         ELSE /\ Raise(~ok)
                              /\ store' = store
           ELSE /\ Return
                /\ UNCHANGED <<store, log>>
    /\ UNCHANGED <<df, call, ncalls, del, wr, ren, col, store0>>

-----------------------------------------------------------------------------
(* write_df_to_azure_table_batch, tables.py 188-231.                       *)

(* 207-208: create the table when it does not exist.                       *)
WB_Create ==
    /\ Running("wb_create")
    /\ \E ok \in BOOLEAN :
         IF ok
         THEN /\ store' = CreateTable(store, wr.table_name)
              /\ Goto("wb_truncate")
         ELSE /\ Raise(TRUE)
              /\ store' = store
    /\ UNCHANGED <<df, call, ncalls, del, wr, ren, col, log, store0>>

(* 210-211: with truncate, delete_all_rows_batch runs first.               *)
WB_Truncate ==
    /\ Running("wb_truncate")
    /\ IF wr.truncate
       THEN /\ del' = [Del0 EXCEPT !.table_name = wr.table_name]
            /\ pc' = "del_query"
            /\ ret' = <<"wb_data">> \o ret
       ELSE /\ del' = del
            /\ pc' = "wb_data"
            /\ ret' = ret
    /\ UNCHANGED <<store, df, call, ncalls, status, fault, wr, ren, col, log,
                   store0>>

(* 213-215: the rows of the dataframe as dictionaries, an empty batch.     *)
WB_Data ==
    /\ Running("wb_data")
    /\ wr' = [wr EXCEPT !.data = wr.df, !.i = 1, !.batch = <<>>,
                        !.batch_count = 0]
    /\ Goto("wb_loop")
    /\ UNCHANGED <<store, df, call, ncalls, del, ren, col, log, store0>>

(* 218-219: row["PartitionKey"] and row["RowKey"] raise KeyError when the  *)
(* dataframe has no such column.                                           *)
RowHasKeys(row) == Has(row, "PartitionKey") /\ Has(row, "RowKey")

(* 217-221: the entity gets every item of the row.                         *)
ToEntity(row) == [k \in DOMAIN row |-> row[k]]

(* 217-223: the entity is added to the batch.                              *)
WrAdd(w) ==
    [w EXCEPT !.batch = Append(@, InsertOp(ToEntity(w.data[w.i]))),
              !.batch_count = @ + 1,
              !.i = @ + 1]

(* A writer that tests for the full batch one row late.                    *)
WrFullLate(count) == count > BatchLimit

(* 224-226: the test that commits the batch.                               *)
WrFull(count) == count = BatchLimit

(* n iterations in a row that only add to the batch.                       *)
WrPlain(w, n) ==
    [w EXCEPT !.batch = @ \o [j \in 1..n |->
                                InsertOp(ToEntity(w.data[w.i + j - 1]))],
              !.batch_count = @ + n,
              !.i = @ + n]

(* The iterations that call nothing, up to the next one that commits or    *)
(* raises.                                                                 *)
WrSkip(w) ==
    LET left == Len(w.data) - w.i + 1
        stops == {j \in 0..left :
                    \/ j = left
                    \/ ~RowHasKeys(w.data[w.i + j])
                    \/ WrFull(w.batch_count + j + 1)}
        n == CHOOSE j \in stops : \A k \in stops : j <= k
    IN  WrPlain(w, n)

(* 216-229: the loop, up to and including its next commit_batch.           *)
WB_Loop ==
    /\ Running("wb_loop")
    /\ LET w == WrSkip(wr)
           t == wr.table_name
       IN  IF w.i > Len(w.data)
           THEN /\ wr' = w
                /\ Goto("wb_last")
                /\ UNCHANGED <<store, log>>
           ELSE IF ~RowHasKeys(w.data[w.i])
           THEN /\ wr' = w
                /\ Raise(FALSE)
                /\ UNCHANGED <<store, log>>
           ELSE \E ok \in BOOLEAN :
                  LET n == WrAdd(w)
                      accepted == ok /\ BatchAccepted(store[t], n.batch)
                  IN  /\ log' = Append(log, CommitEntry(t, n.batch, accepted))
                      /\ IF accepted
                         THEN /\ store' = [store EXCEPT
                                             ![t] = CommitBatch(@, n.batch)]
                              /\ wr' = [n EXCEPT !.batch = <<>>,
                                                 !.batch_count = 0]
                              /\ Goto("wb_loop")
                         ELSE /\ Raise(~ok)
                              /\ wr' = n
                              /\ store' = store
    /\ UNCHANGED <<df, call, ncalls, del, ren, col, store0>>

(* 230: the test that commits the last batch.                              *)
WrLeftover(count) == count > 0

(* 230-231: commit what is left, return.                                   *)
WB_Last ==
    /\ Running("wb_last")
    /\ LET t == wr.table_name
       IN  IF WrLeftover(wr.batch_count)
           THEN \E ok \in BOOLEAN :
                  LET accepted == ok /\ BatchAccepted(store[t], wr.batch)
                  IN  /\ log' = Append(log, CommitEntry(t, wr.batch, accepted))
                      /\ IF accepted
                         THEN /\ store' = [store EXCEPT
                                             ![t] = CommitBatch(@, wr.batch)]
                              /\ Return
                         ELSE /\ Raise(~ok)
                              /\ store' = store
           ELSE /\ Return
                /\ UNCHANGED <<store, log>>
    /\ UNCHANGED <<df, call, ncalls, del, wr, ren, col, store0>>

-----------------------------------------------------------------------------
(* write_df_to_azure_table, tables.py 153-185.                             *)

(* 172-173: create the table when it does not exist.                       *)
W_Create ==
    /\ Running("w_create")
    /\ \E ok \in BOOLEAN :
         IF ok
         THEN /\ store' = CreateTable(store, wr.table_name)
              /\ Goto("w_truncate")
         ELSE /\ Raise(TRUE)
              /\ store' = store
    /\ UNCHANGED <<df, call, ncalls, del, wr, ren, col, log, store0>>

(* 175-176: with truncate, delete_all_rows_batch runs first.               *)
W_Truncate ==
    /\ Running("w_truncate")
    /\ IF wr.truncate
       THEN /\ del' = [Del0 EXCEPT !.table_name = wr.table_name]
            /\ pc' = "del_query"
            /\ ret' = <<"w_data">> \o ret
       ELSE /\ del' = del
            /\ pc' = "w_data"
            /\ ret' = ret
    /\ UNCHANGED <<store, df, call, ncalls, status, fault, wr, ren, col, log,
                   store0>>

(* 178: the rows of the dataframe as dictionaries.                         *)
W_Data ==
    /\ Running("w_data")
    /\ wr' = [wr EXCEPT !.data = wr.df, !.i = 1]
    /\ Goto("w_loop")
    /\ UNCHANGED <<store, df, call, ncalls, del, ren, col, log, store0>>

(* 179-185: one row, inserted on its own; after the last row, return.      *)
W_Loop ==
    /\ Running("w_loop")
    /\ LET t == wr.table_name
       IN  IF wr.i > Len(wr.data)
           THEN /\ Return
                /\ UNCHANGED <<store, wr, log>>
           ELSE IF ~RowHasKeys(wr.data[wr.i])
           THEN /\ Raise(FALSE)
                /\ UNCHANGED <<store, wr, log>>
           ELSE \E ok \in BOOLEAN :
                  LET e == ToEntity(wr.data[wr.i])
                      accepted == ok /\ InsertAccepted(store[t], e)
                  IN  /\ log' = Append(log, InsertEntry(t, e, accepted))
                      /\ IF accepted
                         THEN /\ store' = [store EXCEPT
                                             ![t] = InsertEntity(@, e)]
                              /\ wr' = [wr EXCEPT !.i = @ + 1]
                              /\ Goto("w_loop")
                         ELSE /\ Raise(~ok)
                              /\ UNCHANGED <<store, wr>>
    /\ UNCHANGED <<df, call, ncalls, del, ren, col, store0>>

-----------------------------------------------------------------------------
(* rename_table, tables.py 259-286.                                        *)

(* query_entities with return_df, 89-91: pd.DataFrame gives every row      *)
(* every column that some entity has, and NaN where the entity has none.   *)
Columns(entities) == UNION {DOMAIN entities[i] : i \in 1..Len(entities)}

DataFrame(entities) ==
    [i \in 1..Len(entities) |->
        [c \in Columns(entities) |->
            IF Has(entities[i], c) THEN entities[i][c] ELSE NaN]]

(* 279: drop(columns=[c]) raises KeyError when the frame has no column c.  *)
HasColumn(frame, c) == c \in Columns(frame)
Drop(frame, c) == [i \in 1..Len(frame) |-> Without(frame[i], c)]

(* A delete_table_if_exists that leaves the table in place.                *)
DeleteTableNever(st, t) == st

(* delete_table_if_exists, tables.py 37-46.                                *)
DeleteTableIfExists(st, t) ==
    IF st[t].exists THEN [st EXCEPT ![t] = NoTable] ELSE st

(* 274: a table that has the new name is deleted.                          *)
RT_DeleteNew ==
    /\ Running("rt_delete_new")
    /\ \E ok \in BOOLEAN :
         IF ok
         THEN /\ store' = DeleteTableIfExists(store, ren.new_name)
              /\ Goto("rt_create_new")
         ELSE /\ Raise(TRUE)
              /\ store' = store
    /\ UNCHANGED <<df, call, ncalls, del, wr, ren, col, log, store0>>

(* 275: the new table is created.                                          *)
RT_CreateNew ==
    /\ Running("rt_create_new")
    /\ \E ok \in BOOLEAN :
         IF ok
         THEN /\ store' = CreateTable(store, ren.new_name)
              /\ Goto("rt_query")
         ELSE /\ Raise(TRUE)
              /\ store' = store
    /\ UNCHANGED <<df, call, ncalls, del, wr, ren, col, log, store0>>

(* 278-279: the entities of the old table as a dataframe, without the      *)
(* Timestamp column.                                                       *)
RT_Query ==
    /\ Running("rt_query")
    /\ \E ok \in BOOLEAN :
         IF ok /\ store[ren.old_name].exists
         THEN LET frame == DataFrame(store[ren.old_name].rows)
              IN  IF HasColumn(frame, "Timestamp")
                  THEN /\ ren' = [ren EXCEPT
                                    !.entities = Drop(frame, "Timestamp")]
                       /\ Goto("rt_write")
                  ELSE /\ Raise(FALSE)
                       /\ ren' = ren
         ELSE /\ Raise(~ok)
              /\ ren' = ren
    /\ UNCHANGED <<store, df, call, ncalls, del, wr, col, log, store0>>

(* 283: write_df_to_azure_table(table_service, new_name, entities, True).  *)
RT_Write ==
    /\ Running("rt_write")
    /\ wr' = [Wr0 EXCEPT !.table_name = ren.new_name, !.df = ren.entities,
                         !.truncate = TRUE]
    /\ pc' = "w_create"
    /\ ret' = <<"rt_delete_old">> \o ret
    /\ UNCHANGED <<store, df, call, ncalls, status, fault, del, ren, col, log,
                   store0>>

(* 286: the old table is deleted.                                          *)
RT_DeleteOld ==
    /\ Running("rt_delete_old")
    /\ \E ok \in BOOLEAN :
         IF ok
         THEN /\ store' = DeleteTableIfExists(store, ren.old_name)
              /\ Return
         ELSE /\ Raise(TRUE)
              /\ store' = store
    /\ UNCHANGED <<df, call, ncalls, del, wr, ren, col, log, store0>>

-----------------------------------------------------------------------------
(* copy_column, delete_column, rename_column, tables.py 289-361.           *)

UpdateEntry(t, e, accepted, by) ==
    [call |-> "update_entity", table |-> t, entity |-> e, ok |-> accepted,
     by |-> by]

(* A copy that moves the value: the old column is gone.                    *)
CopyMoves(e, old_column, new_column) ==
    With(Without(e, old_column), new_column, e[old_column])

(* 310-311: the entity with the new column set to the old column's value.  *)
CopyTransform(e, old_column, new_column) ==
    With(e, new_column, e[old_column])

(* A delete that keeps the key columns only.                               *)
DeleteKeepsKeys(e, column_name) ==
    [k \in DOMAIN e \cap KeyColumns |-> e[k]]

(* 337: the entity without the column.                                     *)
DeleteTransform(e, column_name) == Without(e, column_name)

(* 304: scan the table.                                                    *)
CC_Query ==
    /\ Running("cc_query")
    /\ \E ok \in BOOLEAN :
         IF ok /\ store[col.table_name].exists
         THEN /\ col' = [col EXCEPT !.entities = store[col.table_name].rows,
                                    !.idx = 1]
              /\ Goto("cc_loop")
         ELSE /\ Raise(~ok)
              /\ col' = col
    /\ UNCHANGED <<store, df, call, ncalls, del, wr, ren, log, store0>>

(* 306-314: one entity; after the last one, return.                        *)
CC_Loop ==
    /\ Running("cc_loop")
    /\ LET t == col.table_name
       IN  IF col.idx > Len(col.entities)
           THEN /\ Return
                /\ UNCHANGED <<store, col, log>>
           ELSE IF ~Has(col.entities[col.idx], col.old_column)
           THEN /\ col' = [col EXCEPT !.idx = @ + 1]
                /\ Goto("cc_loop")
                /\ UNCHANGED <<store, log>>
           ELSE \E ok \in BOOLEAN :
                  LET e == CopyTransform(col.entities[col.idx],
                                         col.old_column, col.new_column)
                      accepted == ok /\ UpdateAccepted(store[t], e)
                  IN  /\ log' = Append(log, UpdateEntry(t, e, accepted,
                                                        "copy_column"))
                      /\ IF accepted
                         THEN /\ store' = [store EXCEPT
                                             ![t] = UpdateEntity(@, e)]
                              /\ col' = [col EXCEPT !.idx = @ + 1]
                              /\ Goto("cc_loop")
                         ELSE /\ Raise(~ok)
                              /\ UNCHANGED <<store, col>>
    /\ UNCHANGED <<df, call, ncalls, del, wr, ren, store0>>

(* 331: scan the table.                                                    *)
DC_Query ==
    /\ Running("dc_query")
    /\ \E ok \in BOOLEAN :
         IF ok /\ store[col.table_name].exists
         THEN /\ col' = [col EXCEPT !.entities = store[col.table_name].rows,
                                    !.idx = 1]
              /\ Goto("dc_loop")
         ELSE /\ Raise(~ok)
              /\ col' = col
    /\ UNCHANGED <<store, df, call, ncalls, del, wr, ren, log, store0>>

(* 333-340: one entity; after the last one, return.                        *)
DC_Loop ==
    /\ Running("dc_loop")
    /\ LET t == col.table_name
       IN  IF col.idx > Len(col.entities)
           THEN /\ Return
                /\ UNCHANGED <<store, col, log>>
           ELSE IF ~Has(col.entities[col.idx], col.column_name)
           THEN /\ col' = [col EXCEPT !.idx = @ + 1]
                /\ Goto("dc_loop")
                /\ UNCHANGED <<store, log>>
           ELSE \E ok \in BOOLEAN :
                  LET e == DeleteTransform(col.entities[col.idx],
                                           col.column_name)
                      accepted == ok /\ UpdateAccepted(store[t], e)
                  IN  /\ log' = Append(log, UpdateEntry(t, e, accepted,
                                                        "delete_column"))
                      /\ IF accepted
                         THEN /\ store' = [store EXCEPT
                                             ![t] = UpdateEntity(@, e)]
                              /\ col' = [col EXCEPT !.idx = @ + 1]
                              /\ Goto("dc_loop")
                         ELSE /\ Raise(~ok)
                              /\ UNCHANGED <<store, col>>
    /\ UNCHANGED <<df, call, ncalls, del, wr, ren, store0>>

(* 358: copy_column(table_service, table_name, old_column, new_column).    *)
RC_Copy ==
    /\ Running("rc_copy")
    /\ pc' = "cc_query"
    /\ ret' = <<"rc_delete">> \o ret
    /\ UNCHANGED <<store, df, call, ncalls, status, fault, del, wr, ren, col,
                   log, store0>>

(* 361: delete_column(table_service, table_name, old_column).              *)
RC_Delete ==
    /\ Running("rc_delete")
    /\ col' = [col EXCEPT !.column_name = col.old_column]
    /\ pc' = "dc_query"
    /\ UNCHANGED <<store, df, call, ncalls, status, fault, ret, del, wr, ren,
                   log, store0>>

-----------------------------------------------------------------------------
(* Top-level calls.                                                        *)

FirstLabel(op) ==
    CASE op = "write_df_to_azure_table_batch" -> "wb_create"
      [] op = "write_df_to_azure_table" -> "w_create"
      [] op = "delete_all_rows_batch" -> "del_query"
      [] op = "rename_table" -> "rt_delete_new"
      [] op = "copy_column" -> "cc_query"
      [] op = "delete_column" -> "dc_query"
      [] op = "rename_column" -> "rc_copy"

(* The caller passes its arguments; the callee's locals start afresh.      *)
Start(c) ==
    /\ call' = c
    /\ ncalls' = ncalls + 1
    /\ status' = "running"
    /\ pc' = FirstLabel(c.op)
    /\ ret' = <<>>
    /\ log' = <<>>
    /\ store0' = store
    /\ del' = [Del0 EXCEPT !.table_name = c.table_name]
    /\ wr' = [Wr0 EXCEPT !.table_name = c.table_name, !.df = df,
                         !.truncate = c.truncate]
    /\ ren' = [Ren0 EXCEPT !.old_name = c.old, !.new_name = c.new]
    /\ col' = [Col0 EXCEPT !.table_name = c.table_name,
                           !.old_column = c.old_column,
                           !.new_column = c.new_column,
                           !.column_name = c.old_column]
    /\ UNCHANGED <<store, df, fault>>

CallWriteBatch ==
    /\ status = "idle"
    /\ \E truncate \in BOOLEAN :
         Start([NoCall EXCEPT !.op = "write_df_to_azure_table_batch",
                              !.table_name = "T", !.truncate = truncate])

CallWrite ==
    /\ status = "idle"
    /\ Len(df) <= MaxOneByOne
    /\ \E truncate \in BOOLEAN :
         Start([NoCall EXCEPT !.op = "write_df_to_azure_table",
                              !.table_name = "T", !.truncate = truncate])

CallDeleteAll ==
    /\ status = "idle"
    /\ Start([NoCall EXCEPT !.op = "delete_all_rows_batch",
                            !.table_name = "T"])

(* The same call once more, as a caller that repeats it would make it.     *)
CallAgain ==
    /\ status = "done"
    /\ ncalls < MaxCalls
    /\ Start(call)

InitCommon ==
    /\ call = NoCall
    /\ ncalls = 0
    /\ status = "idle"
    /\ fault = FALSE
    /\ pc = "idle"
    /\ ret = <<>>
    /\ del = Del0
    /\ wr = Wr0
    /\ ren = Ren0
    /\ col = Col0
    /\ log = <<>>
    /\ store0 = store

(* Batch writer and deleter on table T: any dataset on a small prior       *)
(* table, or any prior table with nothing to write.                        *)
InitBatch ==
    /\ \E tbl \in LargeTables \cup SmallTables, d \in Datasets :
         /\ tbl \in SmallTables \/ d = <<>>
         /\ store = [n \in TableNames |-> IF n = "T" THEN tbl ELSE NoTable]
         /\ df = d
    /\ InitCommon

NextBatch ==
    \/ CallWriteBatch
    \/ CallWrite
    \/ CallDeleteAll
    \/ CallAgain
    \/ DEL_Query
    \/ DEL_Loop
    \/ DEL_Last
    \/ WB_Create
    \/ WB_Truncate
    \/ WB_Data
    \/ WB_Loop
    \/ WB_Last
    \/ W_Create
    \/ W_Truncate
    \/ W_Data
    \/ W_Loop

SpecBatch == InitBatch /\ [][NextBatch]_vars

-----------------------------------------------------------------------------
(* Tables of mixed schema: every entity has its keys and Timestamp, and    *)
(* may have a column a and a column b.                                     *)

Absent == "absent"
ColumnNames == {"a", "b", "c"}

SchemaEntity(i, av, bv) ==
    LET base == [PartitionKey |-> IF i % 2 = 1 THEN "p1" ELSE "p2",
                 RowKey |-> i, Timestamp |-> StoreTime]
        withA == IF av = Absent THEN base ELSE With(base, "a", av)
    IN  IF bv = Absent THEN withA ELSE With(withA, "b", bv)

SchemaRows(n) ==
    {[i \in 1..n |-> SchemaEntity(i, f[i][1], f[i][2])] :
        f \in [1..n -> {Absent, "v1", "v2"} \X {Absent, "w1"}]}

SchemaTables ==
    {[exists |-> TRUE, rows |-> IF r = <<>> THEN <<>> ELSE r] :
        r \in UNION {SchemaRows(n) : n \in 0..MaxRows}}

(* 150 entities: 100 of one partition, then 50 of another.                 *)
BigTable == TableOf(Dataset(<<<<"p1", BatchLimit>>, <<"p2", BatchLimit \div 2>>>>))

CallRenameTable ==
    /\ status = "idle"
    /\ \E o \in TableNames, n \in TableNames :
         Start([NoCall EXCEPT !.op = "rename_table", !.old = o, !.new = n])

InitRename ==
    /\ \E t \in SchemaTables \cup {BigTable},
          t2 \in {NoTable, TableOf(<<>>), TableOf(Dataset(<<<<"p1", 1>>>>))} :
         store = [n \in TableNames |-> IF n = "T" THEN t ELSE t2]
    /\ df = <<>>
    /\ InitCommon

NextRename ==
    \/ CallRenameTable
    \/ RT_DeleteNew
    \/ RT_CreateNew
    \/ RT_Query
    \/ RT_Write
    \/ RT_DeleteOld
    \/ W_Create
    \/ W_Truncate
    \/ W_Data
    \/ W_Loop
    \/ DEL_Query
    \/ DEL_Loop
    \/ DEL_Last

SpecRename == InitRename /\ [][NextRename]_vars

CallCopyColumn ==
    /\ status = "idle"
    /\ \E o \in ColumnNames, n \in ColumnNames :
         Start([NoCall EXCEPT !.op = "copy_column", !.table_name = "T",
                              !.old_column = o, !.new_column = n])

CallDeleteColumn ==
    /\ status = "idle"
    /\ \E c \in ColumnNames :
         Start([NoCall EXCEPT !.op = "delete_column", !.table_name = "T",
                              !.old_column = c])

CallRenameColumn ==
    /\ status = "idle"
    /\ \E o \in ColumnNames, n \in ColumnNames :
         Start([NoCall EXCEPT !.op = "rename_column", !.table_name = "T",
                              !.old_column = o, !.new_column = n])

InitColumn ==
    /\ \E t \in SchemaTables :
         store = [n \in TableNames |-> IF n = "T" THEN t ELSE NoTable]
    /\ df = <<>>
    /\ InitCommon

NextColumn ==
    \/ CallCopyColumn
    \/ CallDeleteColumn
    \/ CallRenameColumn
    \/ CC_Query
    \/ CC_Loop
    \/ DC_Query
    \/ DC_Loop
    \/ RC_Copy
    \/ RC_Delete

SpecColumn == InitColumn /\ [][NextColumn]_vars

-----------------------------------------------------------------------------
(* What the claims speak of.                                               *)

WB == "write_df_to_azure_table_batch"
W == "write_df_to_azure_table"
D == "delete_all_rows_batch"

Ended == status \in {"done", "failed"}

CommitCalls == SelectSeq(log, LAMBDA x : x.call = "commit_batch")
Committed == SelectSeq(log, LAMBDA x : x.call = "commit_batch" /\ x.ok)

RECURSIVE OpsOf(_, _)
OpsOf(entries, i) ==
    IF i > Len(entries) THEN <<>>
    ELSE entries[i].batch \o OpsOf(entries, i + 1)

(* The operations of the committed batches, in commit order.               *)
CommittedOps == OpsOf(Committed, 1)
CommittedInserts ==
    Map(LAMBDA op : op.entity,
        SelectSeq(CommittedOps, LAMBDA op : op.kind = "insert"))
CommittedDeletes ==
    Map(LAMBDA op : <<op.PartitionKey, op.RowKey>>,
        SelectSeq(CommittedOps, LAMBDA op : op.kind = "delete"))

RowsOf(st, t) == st[t].rows
KeysOf(rows) == Map(KeyOf, rows)
PartitionsOf(rows) == {rows[i].PartitionKey : i \in 1..Len(rows)}

(* The dataset has both key columns, and none of its keys is in the table  *)
(* the rows are inserted into.                                             *)
DatasetValid == \A i \in 1..Len(df) : RowHasKeys(df[i])
DatasetFresh ==
    \/ call.truncate
    \/ \A i \in 1..Len(df) :
          ~HasKey(RowsOf(store0, "T"), df[i].PartitionKey, df[i].RowKey)
-----------------------------------------------------------------------------
(* C1: every batch that write_df_to_azure_table_batch or                   *)
(* delete_all_rows_batch hands to commit_batch holds operations of exactly *)
(* one PartitionKey.                                                       *)
C1_OnePartitionPerBatch ==
    \A i \in 1..Len(CommitCalls) :
        Cardinality(BatchKeys(CommitCalls[i].batch)) = 1

(* C2: every batch handed to commit_batch holds between 1 and 100          *)
(* operations; with an empty dataframe (and nothing to truncate) or an     *)
(* empty table no batch is committed, and the call does not fail unless    *)
(* the table service does.                                                 *)
NothingToDo ==
    \/ /\ call.op = WB
       /\ df = <<>>
       /\ ~call.truncate \/ RowsOf(store0, "T") = <<>>
    \/ /\ call.op = D
       /\ store0["T"].exists
       /\ RowsOf(store0, "T") = <<>>

C2_BatchSizeWithinLimit ==
    /\ \A i \in 1..Len(CommitCalls) :
          /\ Len(CommitCalls[i].batch) >= 1
          /\ Len(CommitCalls[i].batch) <= 100
    /\ NothingToDo =>
          /\ CommitCalls = <<>>
          /\ status = "failed" => fault

(* A call that committed a batch of 100 and then one of a single           *)
(* operation has returned.                                                 *)
C2_Witness ==
    /\ status = "done"
    /\ call.op \in {WB, D}
    /\ \E i \in 1..(Len(Committed) - 1) :
          /\ Len(Committed[i].batch) = 100
          /\ Len(Committed[i + 1].batch) = 1
(* C3: with a table service that works, the call returns and the           *)
(* operations of its committed batches, in commit order, are exactly the   *)
(* entities of the dataframe (write_df_to_azure_table_batch) or of the     *)
(* scan (delete_all_rows_batch), each once and in input order.             *)
C3_CommittedBatchesAreTheInput ==
    /\ (call.op = WB /\ DatasetValid /\ DatasetFresh /\ Ended /\ ~fault) =>
          /\ status = "done"
          /\ CommittedInserts = Map(ToEntity, df)
    /\ (call.op = D /\ store0["T"].exists /\ Ended /\ ~fault) =>
          /\ status = "done"
          /\ CommittedDeletes = KeysOf(RowsOf(store0, "T"))

(* C4: with a table service that works, write_df_to_azure_table_batch with *)
(* truncate=True returns with the table holding exactly the dataset, and a *)
(* second run with the same dataset leaves the table as the first did.     *)
C4_TruncateThenWriteIdempotent ==
    (call.op = WB /\ call.truncate /\ DatasetValid /\ Ended /\ ~fault) =>
        /\ status = "done"
        /\ store["T"] = TableOf(df)
        /\ ncalls = 2 => store = store0

(* C5: when delete_all_rows_batch has returned, a scan of the table        *)
(* returns no entity.                                                      *)
C5_DeleteAllLeavesNothing ==
    /\ (call.op = D /\ status = "done") => RowsOf(store, "T") = <<>>
    /\ (status = "running" /\ pc \in {"wb_data", "w_data"} /\ wr.truncate) =>
          RowsOf(store, wr.table_name) = <<>>

(* delete_all_rows_batch has returned from a table of more than 100        *)
(* entities in two partitions.                                             *)
C5_Witness ==
    /\ call.op = D
    /\ status = "done"
    /\ Len(RowsOf(store0, "T")) > 100
    /\ Cardinality(PartitionsOf(RowsOf(store0, "T"))) = 2
    /\ RowsOf(store, "T") = <<>>

(* C10: a write of a dataframe that lacks PartitionKey or RowKey leaves    *)
(* the store as it was: no table created, no entity deleted or inserted.   *)
C10_InvalidEntityLeavesStoreUntouched ==
    (call.op \in {WB, W} /\ ~DatasetValid) =>
        /\ store = store0
        /\ log = <<>>
-----------------------------------------------------------------------------
InsertCalls == SelectSeq(log, LAMBDA x : x.call = "insert_entity")
UpdateCalls == SelectSeq(log, LAMBDA x : x.call = "update_entity")

RT == "rename_table"
SourceRows == RowsOf(store0, call.old)

(* C6: with a table service that works, rename_table(T, T2) of an existing *)
(* table T returns with T gone and T2 holding exactly the entities of T,   *)
(* keys and column values as they were; the Timestamp of the source is not *)
(* submitted to the new table.                                             *)
C6_RenameMovesEveryEntity ==
    (/\ call.op = RT
     /\ call.old # call.new
     /\ store0[call.old].exists
     /\ Ended
     /\ ~fault) =>
        /\ status = "done"
        /\ ~store[call.old].exists
        /\ store[call.new].exists
        /\ RowsOf(store, call.new) = SourceRows
        /\ \A i \in 1..Len(InsertCalls) :
              ~Has(InsertCalls[i].entity, "Timestamp")

(* C7 as claimed: the copy of the 150 entities is two committed batches,   *)
(* of 100 and of 50 inserts, and no insert of a single entity.             *)
C7_CopyIsTwoBatches ==
    (call.op = RT /\ status = "done" /\ Len(SourceRows) = 150) =>
        /\ Len(Committed) = 2
        /\ Len(Committed[1].batch) = 100
        /\ Len(Committed[2].batch) = 50
        /\ InsertCalls = <<>>

(* C7 as amended: rename_table copies through write_df_to_azure_table, one *)
(* insert_entity per source entity in scan order, and hands no batch to    *)
(* commit_batch: 150 inserts for the 150 entities.                         *)
C7_CopyIsOneByOne ==
    (call.op = RT /\ call.old # call.new) =>
        /\ CommitCalls = <<>>
        /\ status = "done" =>
              /\ Len(InsertCalls) = Len(SourceRows)
              /\ \A i \in 1..Len(InsertCalls) :
                    /\ InsertCalls[i].table = call.new
                    /\ KeyOf(InsertCalls[i].entity) = KeyOf(SourceRows[i])

(* rename_table has returned from a source of 100 entities of one          *)
(* partition followed by 50 of another, after 150 inserts.                 *)
C7_Witness ==
    /\ call.op = RT
    /\ status = "done"
    /\ Len(SourceRows) = 150
    /\ SourceRows[100].PartitionKey # SourceRows[101].PartitionKey
    /\ Len(InsertCalls) = 150
    /\ CommitCalls = <<>>

-----------------------------------------------------------------------------
CC == "copy_column"
DC == "delete_column"
RC == "rename_column"

TableRows == RowsOf(store, "T")
TableRows0 == RowsOf(store0, "T")

(* The entities of the table at the start of the call that have column c,  *)
(* in scan order.                                                          *)
Having(c) == SelectSeq(TableRows0, LAMBDA e : Has(e, c))

Updated(key) == \E i \in 1..Len(UpdateCalls) : KeyOf(UpdateCalls[i].entity) = key

(* C8: copy_column and delete_column issue an update for exactly the       *)
(* entities that have the column; an entity without it gets no update and  *)
(* stays as it was, and an updated entity keeps every other column.        *)
C8_ColumnOpsTouchOnlyEntitiesWithColumn ==
    (call.op \in {CC, DC}) =>
        /\ \A i \in 1..Len(UpdateCalls) :
              KeyOf(UpdateCalls[i].entity) = KeyOf(Having(call.old_column)[i])
        /\ status = "done" => Len(UpdateCalls) = Len(Having(call.old_column))
        /\ Len(TableRows) = Len(TableRows0)
        /\ \A i \in 1..Len(TableRows0) :
              LET before == TableRows0[i]
                  after == TableRows[i]
                  changed == IF call.op = CC THEN call.new_column
                             ELSE call.old_column
              IN  /\ ~Has(before, call.old_column) => after = before
                  /\ ~Updated(KeyOf(before)) => after = before
                  /\ \A c \in (DOMAIN before \cup DOMAIN after) \ {changed} :
                        /\ Has(before, c)
                        /\ Has(after, c)
                        /\ after[c] = before[c]

(* copy_column or delete_column has returned from a table in which one     *)
(* entity has the column and another has not.                              *)
C8_Witness ==
    /\ call.op \in {CC, DC}
    /\ status = "done"
    /\ Len(UpdateCalls) = 1
    /\ Len(TableRows0) = 2
    /\ TableRows # TableRows0

BetweenPasses == pc \in {"rc_delete", "dc_query"}

(* C9: rename_column issues every update of the copy pass before any       *)
(* update of the delete pass, and between the passes (also when the call   *)
(* fails there) every entity that had the old column has the old and the   *)
(* new column, both with the old column's value.                           *)
C9_CopyPassThenDeletePass ==
    (call.op = RC) =>
        /\ \A i, j \in 1..Len(UpdateCalls) :
              (UpdateCalls[i].by = "delete_column"
                 /\ UpdateCalls[j].by = "copy_column") => j < i
        /\ (UpdateCalls # <<>>
              /\ UpdateCalls[Len(UpdateCalls)].by = "delete_column") =>
              Len(SelectSeq(UpdateCalls, LAMBDA x : x.by = "copy_column"))
                 = Len(Having(call.old_column))
        /\ BetweenPasses =>
              \A i \in 1..Len(TableRows0) :
                 Has(TableRows0[i], call.old_column) =>
                    /\ Has(TableRows[i], call.old_column)
                    /\ Has(TableRows[i], call.new_column)
                    /\ TableRows[i][call.old_column]
                          = TableRows0[i][call.old_column]
                    /\ TableRows[i][call.new_column]
                          = TableRows0[i][call.old_column]

(* rename_column has failed between its passes, on a table in which an     *)
(* entity has the old column, with a new column of another name.           *)
C9_Witness ==
    /\ call.op = RC
    /\ call.old_column # call.new_column
    /\ status = "failed"
    /\ pc = "dc_query"
    /\ Len(Having(call.old_column)) >= 1
    /\ Len(TableRows0) = 2

-----------------------------------------------------------------------------
(* The table after the committed batches alone: the rows it had without    *)
(* those a committed batch deleted, then the entities of the committed     *)
(* inserts.                                                                *)
RowsAfterCommitted ==
    LET ops == CommittedOps
        deleted == {<<ops[i].PartitionKey, ops[i].RowKey>> :
                        i \in {j \in 1..Len(ops) : ops[j].kind = "delete"}}
        inserts == SelectSeq(ops, LAMBDA op : op.kind = "insert")
        kept == SelectSeq(TableRows0, LAMBDA r : KeyOf(r) \notin deleted)
    IN  kept \o [i \in 1..Len(inserts) |-> Stored(inserts[i].entity)]

(* C11: when commit_batch fails for a batch of                             *)
(* write_df_to_azure_table_batch or delete_all_rows_batch, the call fails  *)
(* with it: the failed batch is the last request of the call (no retry, no *)
(* later batch), and the table holds exactly the effect of the batches     *)
(* committed before it (no rollback).                                      *)
C11_FailedBatchEndsTheCall ==
    (call.op \in {WB, D}) =>
        /\ \A i \in 1..Len(CommitCalls) :
              ~CommitCalls[i].ok =>
                 /\ i = Len(CommitCalls)
                 /\ status = "failed"
        /\ RowsOf(store, "T") = RowsAfterCommitted

(* The table service has failed a batch after at least one batch was       *)
(* committed, and the table is no longer what it was.                      *)
C11_Witness ==
    /\ call.op \in {WB, D}
    /\ status = "failed"
    /\ fault
    /\ Len(Committed) >= 1
    /\ Len(CommitCalls) = Len(Committed) + 1
    /\ ~CommitCalls[Len(CommitCalls)].ok
    /\ RowsOf(store, "T") # TableRows0
    /\ RowsOf(store, "T") # <<>>

-----------------------------------------------------------------------------
(* The step of rename_table that the code is in, or that failed.           *)
RenameSteps ==
    <<"delete-dest", "create-dest", "copy-entities", "delete-source", "done">>

RenameStep ==
    CASE pc = "rt_delete_new" -> "delete-dest"
      [] pc = "rt_create_new" -> "create-dest"
      [] pc = "rt_delete_old" -> "delete-source"
      [] pc = "end" -> "done"
      [] OTHER -> "copy-entities"

StepIndex(step) == CHOOSE i \in 1..Len(RenameSteps) : RenameSteps[i] = step

Inserted == SelectSeq(InsertCalls, LAMBDA x : x.ok)

(* Every entity of the source table has been inserted, in scan order.      *)
CopyCompleted ==
    /\ Len(Inserted) = Len(SourceRows)
    /\ \A i \in 1..Len(Inserted) :
          KeyOf(Inserted[i].entity) = KeyOf(SourceRows[i])

(* The store that the completed steps of rename_table have produced.       *)
RenameStateOfStep ==
    LET o == call.old
        n == call.new
        copied == [i \in 1..Len(Inserted) |-> Stored(Inserted[i].entity)]
        SourceKept == o # n => store[o] = store0[o]
    IN  CASE RenameStep = "delete-dest" -> store = store0
          [] RenameStep = "create-dest" ->
                /\ ~store[n].exists
                /\ SourceKept
          [] RenameStep = "copy-entities" ->
                /\ store[n].exists
                /\ RowsOf(store, n) = copied
                /\ SourceKept
          [] RenameStep = "delete-source" ->
                /\ CopyCompleted
                /\ store[n].exists
                /\ RowsOf(store, n) = copied
                /\ SourceKept
          [] RenameStep = "done" ->
                /\ CopyCompleted
                /\ ~store[o].exists
                /\ o # n => (store[n].exists /\ RowsOf(store, n) = copied)

(* One step of the model stays in a step of rename_table or goes on to the *)
(* next one, and goes nowhere after a failure.                             *)
RenameStepsInOrder ==
    (call.op = RT /\ call' = call) =>
        /\ StepIndex(RenameStep') \in
              {StepIndex(RenameStep), StepIndex(RenameStep) + 1}
        /\ status = "failed" => UNCHANGED <<store, pc>>

-----------------------------------------------------------------------------
(* add_keys_to_df, tables.py 234-256.  A string is the sequence of the     *)
(* codes of its characters, so that strings compare as Python compares     *)
(* them.                                                                   *)

Zero == 48                  \* "0", the character zfill pads with
Dash == 45                  \* "-"

(* str(n) of a number that is not negative.                                *)
RECURSIVE Str(_)
Str(n) ==
    IF n < 10 THEN <<Zero + n>>
    ELSE Append(Str(n \div 10), Zero + (n % 10))

(* s.zfill(width) of a string without a sign.                              *)
ZFill(s, width) ==
    IF Len(s) >= width THEN s
    ELSE [i \in 1..(width - Len(s)) |-> Zero] \o s

(* A padding that pads nothing.                                            *)
MaxDigitsOne(n) == 1

(* 251: max_digits = len(str(len(df))).                                    *)
MaxDigits(n) == Len(Str(n))

(* 251-255: every row gets the partition key, and a row key made of the    *)
(* partition key, "-" and the padded number of the row, counted from 0.    *)
AddKeysToDf(frame, partition_key) ==
    LET max_digits == MaxDigits(Len(frame))
    IN  [i \in 1..Len(frame) |->
            With(With(frame[i], "PartitionKey", partition_key),
                 "RowKey",
                 partition_key \o <<Dash>> \o ZFill(Str(i - 1), max_digits))]

AK == "add_keys_to_df"

KeyRowCounts ==
    (0..MaxKeyRows) \cup {BatchLimit - 1, BatchLimit, BatchLimit + 1}

(* Dataframes of one column, without keys.                                 *)
KeyFrames == {[i \in 1..n |-> [a |-> "v1"]] : n \in KeyRowCounts}

(* Partition values: "p1", "20" and the empty string.                      *)
PartitionValues == {<<112, 49>>, <<50, 48>>, <<>>}

RowKeys(frame) == [i \in 1..Len(frame) |-> frame[i].RowKey]

(* The caller gives a dataframe its keys, or gives them once more: the     *)
(* dataframe is changed in place and returned.                             *)
AddKeys ==
    /\ status \in {"idle", "done"}
    /\ ncalls < MaxCalls
    /\ \E p \in PartitionValues :
         /\ df' = AddKeysToDf(df, p)
         /\ call' = [op |-> AK, partition_key |-> p]
         /\ log' = Append(log, [call |-> AK, partition_key |-> p,
                                keys |-> RowKeys(df')])
    /\ ncalls' = ncalls + 1
    /\ status' = "done"
    /\ pc' = "end"
    /\ UNCHANGED <<store, fault, ret, del, wr, ren, col, store0>>

InitKeys ==
    /\ df \in KeyFrames
    /\ store = [n \in TableNames |-> NoTable]
    /\ InitCommon

NextKeys == AddKeys

SpecKeys == InitKeys /\ [][NextKeys]_vars

-----------------------------------------------------------------------------
(* The number of decimal digits of n.                                      *)
DigitCount(n) ==
    CHOOSE w \in 1..4 : n < 10^w /\ (w = 1 \/ n >= 10^(w - 1))

IsDigit(ch) == ch \in Zero..(Zero + 9)

(* The number that a string of digits writes.                              *)
RECURSIVE DecimalValue(_)
DecimalValue(s) ==
    IF s = <<>> THEN 0
    ELSE 10 * DecimalValue(SubSeq(s, 1, Len(s) - 1)) + (s[Len(s)] - Zero)

(* s < t for strings, as Python orders them: by the first character that   *)
(* differs, a proper prefix first.                                         *)
LexLess(s, t) ==
    \E k \in 1..(Len(t)) :
        /\ k <= Len(s) + 1
        /\ \A j \in 1..(k - 1) : s[j] = t[j]
        /\ k = Len(s) + 1 \/ s[k] < t[k]

(* C13: after add_keys_to_df(df, P) on N rows, row i (from 0) has          *)
(* PartitionKey P and RowKey P, "-", then i written with the number of     *)
(* digits of N, zeros to the left; the RowKeys are pairwise distinct and   *)
(* strictly increasing as strings in row order; a second call with the     *)
(* same P gives the same RowKeys.                                          *)
C13_KeyAssignment ==
    (call.op = AK) =>
        LET N == Len(df)
            P == call.partition_key
            width == DigitCount(N)
            Number(i) == SubSeq(df[i].RowKey, Len(P) + 2, Len(df[i].RowKey))
        IN  /\ \A i \in 1..N :
                  /\ df[i].PartitionKey = P
                  /\ SubSeq(df[i].RowKey, 1, Len(P) + 1) = P \o <<Dash>>
                  /\ Len(Number(i)) = width
                  /\ \A j \in 1..width : IsDigit(Number(i)[j])
                  /\ DecimalValue(Number(i)) = i - 1
            /\ \A i, j \in 1..N : i # j => df[i].RowKey # df[j].RowKey
            /\ \A i \in 1..(N - 1) : LexLess(df[i].RowKey, df[i + 1].RowKey)
            /\ \A x, y \in 1..Len(log) :
                  log[x].partition_key = log[y].partition_key =>
                     log[x].keys = log[y].keys

(* A dataframe of more than 100 rows has been given keys twice with the    *)
(* same partition value, so that row 0 is padded with two zeros.           *)
C13_Witness ==
    /\ call.op = AK
    /\ Len(df) > BatchLimit
    /\ Len(log) = 2
    /\ log[1].partition_key = log[2].partition_key
    /\ call.partition_key # <<>>
    /\ df[1].RowKey = call.partition_key \o <<Dash, Zero, Zero, Zero>>

-----------------------------------------------------------------------------
(* The places where a maximal run of adjacent rows of one PartitionKey     *)
(* starts, and the length of the run that starts at s.                     *)
RunStarts(rows) ==
    {i \in 1..Len(rows) :
        i = 1 \/ rows[i].PartitionKey # rows[i - 1].PartitionKey}

RunLength(rows, starts, s) ==
    LET later == {x \in starts : x > s} \cup {Len(rows) + 1}
    IN  (CHOOSE x \in later : \A y \in later : x <= y) - s

(* ceil(n / 100)                                                           *)
BatchesOfRun(n) == (n + BatchLimit - 1) \div BatchLimit

RECURSIVE SumOfBatches(_, _, _)
SumOfBatches(rows, starts, todo) ==
    IF todo = {} THEN 0
    ELSE LET s == CHOOSE x \in todo : TRUE
         IN  BatchesOfRun(RunLength(rows, starts, s))
                + SumOfBatches(rows, starts, todo \ {s})

(* The sum over the maximal runs of rows of ceil(run length / 100).        *)
ExpectedBatches(rows) == SumOfBatches(rows, RunStarts(rows), RunStarts(rows))

WritesAsExpected ==
    (call.op = WB /\ DatasetValid /\ DatasetFresh /\ Ended /\ ~fault) =>
        /\ status = "done"
        /\ Len(Committed) =
              ExpectedBatches(df)
                 + (IF call.truncate THEN ExpectedBatches(TableRows0) ELSE 0)

DeletesAsExpected ==
    (call.op = D /\ store0["T"].exists /\ Ended /\ ~fault) =>
        /\ status = "done"
        /\ Len(Committed) = ExpectedBatches(TableRows0)

(* C14: with a table service that works, the number of batches that        *)
(* write_df_to_azure_table_batch and delete_all_rows_batch commit is the   *)
(* sum, over the maximal runs of adjacent entities of one PartitionKey, of *)
(* ceil(run length / 100): one batch per entity when adjacent entities     *)
(* never share a PartitionKey.                                             *)
C14_BatchCountIsSumOverRuns == WritesAsExpected /\ DeletesAsExpected

-----------------------------------------------------------------------------
(* The entity e is among rows: same keys and same columns with the same    *)
(* values, the Timestamp apart.                                            *)
Present(e, rows) ==
    \E i \in 1..Len(rows) :
        Without(rows[i], "Timestamp") = Without(e, "Timestamp")

(* C15: for every pair of table names, at every point of rename_table and  *)
(* after a failure of any step, every entity that the old table held when  *)
(* the call started is in the table of the old name or in the table of the *)
(* new name.                                                               *)
C15_RenameNeverLosesData ==
    (call.op = RT) =>
        \A i \in 1..Len(SourceRows) :
            \/ Present(SourceRows[i], RowsOf(store, call.old))
            \/ Present(SourceRows[i], RowsOf(store, call.new))

-----------------------------------------------------------------------------
(* C16: for every pair of column names that are not keys, when             *)
(* rename_column has returned every entity that had the old column with    *)
(* value v has the new column with value v.                                *)
C16_RenameColumnKeepsValues ==
    (call.op = RC /\ status = "done") =>
        \A i \in 1..Len(TableRows0) :
            Has(TableRows0[i], call.old_column) =>
                /\ Has(TableRows[i], call.new_column)
                /\ TableRows[i][call.new_column]
                      = TableRows0[i][call.old_column]

-----------------------------------------------------------------------------
(* C17: with a table service that works, rename_table of an existing table *)
(* that holds no entity to another name returns: the table of the new name *)
(* exists and is empty, the table of the old name is gone.                 *)
C17_RenameOfEmptyTableCompletes ==
    (/\ call.op = RT
     /\ call.old # call.new
     /\ store0[call.old].exists
     /\ SourceRows = <<>>
     /\ Ended
     /\ ~fault) =>
        /\ status = "done"
        /\ store[call.new].exists
        /\ RowsOf(store, call.new) = <<>>
        /\ ~store[call.old].exists
====
